---- MODULE Spec2Model ----
(***************************************************************************)
(* The query-cache layer of src/hooks/queries.ts: the key registry, the    *)
(* reads that go through the cache, and the login, order and wish-toggle   *)
(* mutations with their optimistic rewrite and rollback.                   *)
(*                                                                         *)
(* Two revisions of the file are in the repository and both are modelled:  *)
(*   "queries"  src/src/hooks/queries.ts  (the product page reads four     *)
(*              separate keys; the toggle rewrites the wish entry only)    *)
(*   "part_000" src/unnamed/part_000      (the product page is one         *)
(*              aggregate entry ['productPage', id]; the toggle rewrites   *)
(*              the wish entry and the aggregate)                          *)
(* The variable revision says which one a behaviour runs; it never changes.*)
(*                                                                         *)
(* The cache itself is the QueryClient of @tanstack/react-query. Its       *)
(* operations are modelled by what they do to a query's state: data,       *)
(* isInvalidated, fetchStatus, and the state kept for reverting a          *)
(* cancelled fetch.                                                        *)
(***************************************************************************)
EXTENDS Integers, Sequences, FiniteSets, TLC

VARIABLES
    revision,   \* which revision of the hooks file is running
    cache,      \* the QueryClient's queries: key -> query state
    loads,      \* number of loader (queryFn) calls made so far
    toggle,     \* the wish-toggle mutations: id -> lifecycle record
    login,      \* the login mutation
    order,      \* the order-creation mutation
    session,    \* sessionStorage 'userInfo' entry
    errorStore, \* useErrorStore's error
    location,   \* window.location.pathname (with the query string of a redirect)
    effects,    \* what the mutation handlers did, in order: invalidate,
                \* alert, toast, navigate
    infinite,   \* the paginated query of useThemeProductsInfiniteQuery
    registry    \* the keys the registry was asked for: (family, params, key)

vars == <<revision, cache, loads, toggle, login, order, session, errorStore,
          location, effects, infinite, registry>>

---------------------------------------------------------------------------
(* Bounds of the model *)

\* largest wishCount a loader returns
MaxCount == 1

\* loader calls per behaviour
MaxLoads == 2

\* wish-toggle mutations per behaviour
NumToggles == 2

\* receivers of an order form, and the largest quantity of one receiver
MaxReceivers == 2

MaxQuantity == 2

\* largest page size a caller gives the paginated query
MaxLimit == 2

\* pages the paginated query holds at most
MaxPages == 4

\* page requests per behaviour
MaxRequests == 5

\* keys asked of the registry per behaviour
MaxKeys == 2

Revisions == {"queries", "part_000"}

ProductIds == {"1"}

\* a product that is read and never toggled
OtherProductId == "2"

ToggleIds == 1..NumToggles

---------------------------------------------------------------------------
(* Values *)

\* an absent value (undefined) and a present one
None == <<>>

Some(v) == <<v>>

\* a null product, as getProduct may return
Null == "null"

\* ProductWish values a loader returns
WishValues == [wishCount : 0..MaxCount, isWished : BOOLEAN]

---------------------------------------------------------------------------
(* Key registry *)

themesKey == <<"themes">>

rankingProductsKey(targetType, rankType) ==
    <<"products", "ranking", targetType, rankType>>

productKey(productId) == <<"products", productId>>

productDetailKey(productId) == <<"products", productId, "detail">>

productReviewsKey(productId) == <<"products", productId, "reviews">>

productWishKey(productId) == <<"products", productId, "wish">>

productsKey == <<"products">>

productPageKey(productId) == <<"productPage", productId>>

themeInfoKey(themeId) == <<"themes", themeId, "info">>

themeProductsKey(themeId) == <<"themes", themeId, "products">>

\* the paginated key without its last segment
themeProductsInfiniteKeyBare(themeId) == themeProductsKey(themeId)

\* the key of the paginated theme products
themeProductsInfiniteKey(themeId) == themeProductsKey(themeId) \o <<"infinite">>

\* the ids a caller may give: a plain one, and ones that read like the
\* fixed segments of other families
Ids == {"1", "ranking", "products", "info", "detail"}

\* the families of the registry with their parameter lists
KeyCalls ==
    {[family |-> f, params |-> <<>>] : f \in {"themes", "products"}}
    \cup {[family |-> f, params |-> <<id>>] :
             f \in {"themeInfo", "themeProducts", "themeProductsInfinite",
                    "product", "productDetail", "productReviews",
                    "productWish"},
             id \in Ids}
    \cup {[family |-> "rankingProducts", params |-> <<targetType, rankType>>] :
             targetType \in {"ALL", "detail"},
             rankType \in {"MANY_WISH", "wish"}}

\* the key of a family for a parameter list
keyOf(family, params) ==
    CASE family = "themes" -> themesKey
      [] family = "themeInfo" -> themeInfoKey(params[1])
      [] family = "themeProducts" -> themeProductsKey(params[1])
      [] family = "themeProductsInfinite" -> themeProductsInfiniteKey(params[1])
      [] family = "rankingProducts" -> rankingProductsKey(params[1], params[2])
      [] family = "product" -> productKey(params[1])
      [] family = "productDetail" -> productDetailKey(params[1])
      [] family = "productReviews" -> productReviewsKey(params[1])
      [] family = "productWish" -> productWishKey(params[1])
      [] family = "products" -> productsKey

\* the ranking list the model reads
RankingKey == rankingProductsKey("ALL", "MANY_WISH")

\* the keys the product hooks of a revision read
ProductReadKeys(rev) ==
    {productKey(p) : p \in ProductIds}
    \cup {productDetailKey(p) : p \in ProductIds}
    \cup {productReviewsKey(p) : p \in ProductIds}
    \cup {productWishKey(p) : p \in ProductIds}
    \cup (IF rev = "part_000"
          THEN {productPageKey(p) : p \in ProductIds}
          ELSE {})

\* the keys the hooks of a revision read
ReadKeys(rev) ==
    {themesKey, RankingKey, productWishKey(OtherProductId)}
    \cup ProductReadKeys(rev)

\* a query filter's queryKey matches every key it is a prefix of
partialMatchKey(key, filterKey) ==
    /\ Len(filterKey) <= Len(key)
    /\ \A i \in 1..Len(filterKey) : key[i] = filterKey[i]

---------------------------------------------------------------------------
(* The remote boundary: what each loader may resolve to. A loader call may  *)
(* also reject (a remote failure), which is the outcome Rejected.           *)

Rejected == [ok |-> FALSE, value |-> None]

Resolved(v) == [ok |-> TRUE, value |-> v]

getThemes == {"themes"}

getRankingProducts == {"ranking"}

getProduct == {"product", Null}

getProductDetail == {"detail"}

getProductReviews == {"reviews"}

getProductWish == WishValues

\* the queryFn of useSuspenseProductQuery
productQueryFn(rev) ==
    IF rev = "part_000"
    THEN {IF product = Null THEN Rejected ELSE Resolved(product) :
             product \in getProduct}
    ELSE {Resolved(product) : product \in getProduct}

\* the queryFn of useProductPageDataQuery in part_000: the four loaders under
\* Promise.all, then the check of the product
productPageQueryFn ==
    {IF product = Null
     THEN Rejected
     ELSE Resolved([product |-> product, productDetail |-> productDetail,
                    reviewData |-> reviewData, wishData |-> wishData]) :
        product \in getProduct, productDetail \in getProductDetail,
        reviewData \in getProductReviews, wishData \in getProductWish}

\* the outcomes of the queryFn bound to a key
QueryFn(rev, key) ==
    {Rejected} \cup
    (IF key = themesKey THEN {Resolved(v) : v \in getThemes}
     ELSE IF key = RankingKey THEN {Resolved(v) : v \in getRankingProducts}
     ELSE IF key[1] = "productPage" THEN productPageQueryFn
     ELSE IF Len(key) = 2 THEN productQueryFn(rev)
     ELSE IF key[3] = "detail" THEN {Resolved(v) : v \in getProductDetail}
     ELSE IF key[3] = "reviews" THEN {Resolved(v) : v \in getProductReviews}
     ELSE {Resolved(v) : v \in getProductWish})

---------------------------------------------------------------------------
(* The QueryClient: operations on the map of queries *)

\* a query as the cache builds it
NewQuery ==
    [data |-> None, isInvalidated |-> FALSE, fetchStatus |-> "idle",
     revertState |-> None, fetchId |-> 0]

\* the cache c with the query at key replaced by q (built when it is not there)
WithQuery(c, key, q) ==
    [k \in DOMAIN c \cup {key} |-> IF k = key THEN q ELSE c[k]]

QueryOf(c, key) == IF key \in DOMAIN c THEN c[key] ELSE NewQuery

\* queryClient.getQueryData(key)
getQueryData(c, key) == QueryOf(c, key).data

\* queryClient.setQueryData(key, value): a manual success. A value of
\* undefined writes nothing. The write clears isInvalidated and leaves a
\* fetch in flight running.
setQueryData(c, key, value) ==
    IF value = None
    THEN c
    ELSE WithQuery(c, key,
                   [QueryOf(c, key) EXCEPT !.data = value,
                                           !.isInvalidated = FALSE])

\* query.fetch(): the state is kept for a revert, the queryFn is called.
\* fetchId numbers the loader call in flight (0 when there is none).
startFetch(q, id) ==
    [q EXCEPT !.fetchStatus = "fetching",
              !.revertState = Some([data |-> q.data,
                                    isInvalidated |-> q.isInvalidated]),
              !.fetchId = id]

\* query.cancel({revert: true}): the queryFn's result is dropped and the
\* query goes back to its state at the start of the fetch
cancelFetch(q) ==
    IF q.fetchStatus = "fetching"
    THEN [data |-> q.revertState[1].data,
          isInvalidated |-> q.revertState[1].isInvalidated,
          fetchStatus |-> "idle", revertState |-> None, fetchId |-> 0]
    ELSE q

\* queryClient.cancelQueries({queryKey: filterKey})
cancelQueries(c, filterKey) ==
    [k \in DOMAIN c |->
        IF partialMatchKey(k, filterKey) THEN cancelFetch(c[k]) ELSE c[k]]

\* the keys a filter selects: every query for no filter (None)
Matches(key, filterKey) ==
    filterKey = None \/ partialMatchKey(key, filterKey)

\* invalidateQueries that marks the queries under the products prefix only
invalidateProductsOnly(c, filterKey) ==
    [k \in DOMAIN c |->
        IF partialMatchKey(k, <<"products">>)
        THEN [c[k] EXCEPT !.isInvalidated = TRUE]
        ELSE c[k]]

\* queryClient.invalidateQueries(filter), its marking of the queries
invalidateQueries(c, filterKey) ==
    [k \in DOMAIN c |->
        IF Matches(k, filterKey)
        THEN [c[k] EXCEPT !.isInvalidated = TRUE]
        ELSE c[k]]

\* a read of key is served from the cache only while the query has data that
\* is not invalidated; otherwise it goes to the loader
isStale(c, key) ==
    \/ key \notin DOMAIN c
    \/ c[key].data = None
    \/ c[key].isInvalidated

---------------------------------------------------------------------------
(* Reads: useSuspenseQuery and useSuspenseQueries on a key *)

\* A read (a mount, or a refetch) that reaches the loader. Reads of a key
\* whose fetch is in flight join that fetch: no second loader call is made.
FetchStart(key) ==
    /\ key \in ReadKeys(revision)
    /\ loads < MaxLoads
    /\ QueryOf(cache, key).fetchStatus = "idle"
    /\ cache' = WithQuery(cache, key, startFetch(QueryOf(cache, key), loads + 1))
    /\ loads' = loads + 1
    /\ UNCHANGED <<revision, toggle, login, order, session, errorStore,
                   location, effects, infinite, registry>>

\* The queryFn of a fetch in flight settles. A result is stored as the data
\* and clears isInvalidated; a rejection leaves the data as it is.
FetchSettle(key) ==
    /\ key \in DOMAIN cache
    /\ cache[key].fetchStatus = "fetching"
    /\ \E r \in QueryFn(revision, key) :
          cache' = [cache EXCEPT ![key] =
                      IF r.ok
                      THEN [data |-> Some(r.value), isInvalidated |-> FALSE,
                            fetchStatus |-> "idle", revertState |-> None,
                            fetchId |-> 0]
                      ELSE [@ EXCEPT !.fetchStatus = "idle",
                                     !.revertState = None,
                                     !.fetchId = 0]]
    /\ UNCHANGED <<revision, loads, toggle, login, order, session, errorStore,
                   location, effects, infinite, registry>>

---------------------------------------------------------------------------
(* useToggleWishMutation *)

\* toggleWish with the two branches of the count exchanged
toggleWishSwapped(old, isWished) ==
    IF old = None
    THEN Some([wishCount |-> 0, isWished |-> FALSE])
    ELSE Some([old[1] EXCEPT
                 !.isWished = ~isWished,
                 !.wishCount = IF isWished THEN @ + 1 ELSE @ - 1])

\* toggleWish that counts up whatever the input
toggleWishCountUp(old, isWished) ==
    IF old = None
    THEN Some([wishCount |-> 0, isWished |-> FALSE])
    ELSE Some([old[1] EXCEPT !.isWished = ~isWished, !.wishCount = @ + 1])

\* the updater onMutate gives setQueryData for the wish entry
toggleWish(old, isWished) ==
    IF old = None
    THEN Some([wishCount |-> 0, isWished |-> FALSE])
    ELSE Some([old[1] EXCEPT
                 !.isWished = ~isWished,
                 !.wishCount = IF isWished THEN @ - 1 ELSE @ + 1])

\* the updater onMutate gives setQueryData for the product-page aggregate
\* (part_000)
toggleProductPage(old, isWished) ==
    IF old = None
    THEN None
    ELSE Some([old[1] EXCEPT
                 !.wishData = [@ EXCEPT
                     !.isWished = ~isWished,
                     !.wishCount = IF isWished THEN @ - 1 ELSE @ + 1]])

\* the cancelQueries calls onMutate awaits, in order
CancelFilters(rev, productId) ==
    IF rev = "part_000"
    THEN <<productWishKey(productId), productPageKey(productId)>>
    ELSE <<productWishKey(productId), productKey(productId),
           productDetailKey(productId), productReviewsKey(productId)>>

\* the context onMutate returns: the snapshots
Snapshot(rev, c, productId) ==
    IF rev = "part_000"
    THEN [previousWish |-> getQueryData(c, productWishKey(productId)),
          previousProductPage |-> getQueryData(c, productPageKey(productId))]
    ELSE [previousWish |-> getQueryData(c, productWishKey(productId)),
          previousProduct |-> getQueryData(c, productKey(productId)),
          previousProductDetail |->
              getQueryData(c, productDetailKey(productId)),
          previousProductReviews |->
              getQueryData(c, productReviewsKey(productId))]

\* the cache after onMutate's setQueryData calls
OptimisticRewrite(rev, c, productId, isWished) ==
    LET wished ==
            setQueryData(c, productWishKey(productId),
                toggleWish(getQueryData(c, productWishKey(productId)),
                           isWished))
    IN  IF rev = "part_000"
        THEN setQueryData(wished, productPageKey(productId),
                 toggleProductPage(
                     getQueryData(wished, productPageKey(productId)),
                     isWished))
        ELSE wished

\* Rollback that restores the aggregate and not the wish entry
RollbackAggregateOnly(rev, c, productId, context) ==
    IF rev = "part_000" /\ context.previousProductPage # None
    THEN setQueryData(c, productPageKey(productId),
                      context.previousProductPage)
    ELSE c

\* Rollback that writes back every snapshot onMutate took, those of the
\* product, detail and reviews entries as well
RollbackEverySnapshot(rev, c, productId, context) ==
    LET wish ==
            IF context.previousWish # None
            THEN setQueryData(c, productWishKey(productId),
                              context.previousWish)
            ELSE c
    IN  IF rev = "part_000"
        THEN setQueryData(wish, productPageKey(productId),
                          context.previousProductPage)
        ELSE setQueryData(
                 setQueryData(
                     setQueryData(wish, productKey(productId),
                                  context.previousProduct),
                     productDetailKey(productId),
                     context.previousProductDetail),
                 productReviewsKey(productId),
                 context.previousProductReviews)

\* the cache after onError's setQueryData calls
Rollback(rev, c, productId, context) ==
    LET wish ==
            IF context.previousWish # None
            THEN setQueryData(c, productWishKey(productId),
                              context.previousWish)
            ELSE c
    IN  IF rev = "part_000" /\ context.previousProductPage # None
        THEN setQueryData(wish, productPageKey(productId),
                          context.previousProductPage)
        ELSE wish

\* a toggle that was not started
IdleToggle ==
    [pc |-> "idle", variables |-> None, step |-> 0, context |-> None,
     fetchAtRewrite |-> 0]

Variables(m) == toggle[m].variables[1]

\* mutate({productId, isWished}): onMutate runs up to its first await, the
\* cancelQueries of the wish key
ToggleMutate(m, productId, isWished) ==
    /\ toggle[m].pc = "idle"
    /\ \A n \in ToggleIds : n < m => toggle[n].pc # "idle"
    /\ toggle' = [toggle EXCEPT ![m] =
          [@ EXCEPT !.pc = "onMutate",
                    !.variables = Some([productId |-> productId,
                                        isWished |-> isWished]),
                    !.step = 2]]
    /\ cache' = cancelQueries(cache, CancelFilters(revision, productId)[1])
    /\ UNCHANGED <<revision, loads, login, order, session, errorStore,
                   location, effects, infinite, registry>>

\* onMutate resumes from an await and issues its next cancelQueries
ToggleCancel(m) ==
    /\ toggle[m].pc = "onMutate"
    /\ toggle[m].step <= Len(CancelFilters(revision, Variables(m).productId))
    /\ cache' = cancelQueries(cache,
          CancelFilters(revision, Variables(m).productId)[toggle[m].step])
    /\ toggle' = [toggle EXCEPT ![m].step = @ + 1]
    /\ UNCHANGED <<revision, loads, login, order, session, errorStore,
                   location, effects, infinite, registry>>

\* onMutate resumes from its last await: the snapshots are read and the
\* entries rewritten in one synchronous block, and the context returned.
\* fetchAtRewrite notes the read of the wish key in flight at that moment.
ToggleRewrite(m) ==
    /\ toggle[m].pc = "onMutate"
    /\ toggle[m].step > Len(CancelFilters(revision, Variables(m).productId))
    /\ cache' = OptimisticRewrite(revision, cache, Variables(m).productId,
                                  Variables(m).isWished)
    /\ toggle' = [toggle EXCEPT ![m] =
          [@ EXCEPT !.pc = "mutated",
                    !.context = Some(Snapshot(revision, cache,
                                              Variables(m).productId)),
                    !.fetchAtRewrite =
                        QueryOf(cache,
                            productWishKey(Variables(m).productId)).fetchId]]
    /\ UNCHANGED <<revision, loads, login, order, session, errorStore,
                   location, effects, infinite, registry>>

\* ToggleDispatch for a mutation that calls mutationFn without waiting for
\* onMutate to return
ToggleDispatchUnawaited(m) ==
    /\ toggle[m].pc \in {"onMutate", "mutated"}
    /\ toggle' = [toggle EXCEPT ![m].pc = "pending"]
    /\ UNCHANGED <<revision, cache, loads, login, order, session, errorStore,
                   location, effects, infinite, registry>>

\* the mutation, with the context of onMutate, calls mutationFn
ToggleDispatch(m) ==
    /\ toggle[m].pc = "mutated"
    /\ toggle' = [toggle EXCEPT ![m].pc = "pending"]
    /\ UNCHANGED <<revision, cache, loads, login, order, session, errorStore,
                   location, effects, infinite, registry>>

\* a remote call that reports no success
mutationFnUnsuccessful(variables) == [success |-> FALSE]

\* mutationFn: the stub resolves {success: true} for every input
mutationFn(variables) == [success |-> TRUE]

\* the remote call settles with success: there is no onSuccess, and
\* onSettled does nothing
ToggleSuccess(m) ==
    /\ toggle[m].pc = "pending"
    /\ mutationFn(Variables(m)).success
    /\ toggle' = [toggle EXCEPT ![m].pc = "success"]
    /\ UNCHANGED <<revision, cache, loads, login, order, session, errorStore,
                   location, effects, infinite, registry>>

\* the remote call fails: onError restores the snapshots, onSettled does
\* nothing. The stub never fails; this is the step of a remote call put in
\* its place.
ToggleError(m) ==
    /\ toggle[m].pc = "pending"
    /\ cache' = Rollback(revision, cache, Variables(m).productId,
                         toggle[m].context[1])
    /\ toggle' = [toggle EXCEPT ![m].pc = "error"]
    /\ UNCHANGED <<revision, loads, login, order, session, errorStore,
                   location, effects, infinite, registry>>

---------------------------------------------------------------------------
(* Invalidation as the mutations call it: the matching queries are marked, *)
(* and those of them that are active (a component is mounted on them) are  *)
(* fetched again at once. Which queries are active is up to the page       *)
(* shown, so it is any set of the marked queries that are not fetching.    *)

Invalidate(filterKey) ==
    \E active \in SUBSET {k \in DOMAIN cache :
                            /\ Matches(k, filterKey)
                            /\ cache[k].fetchStatus = "idle"} :
        /\ loads + Cardinality(active) <= MaxLoads
        /\ LET marked == invalidateQueries(cache, filterKey)
               number == CHOOSE f \in [active -> 1..Cardinality(active)] :
                            \A a, b \in active : a # b => f[a] # f[b]
           IN  cache' = [k \in DOMAIN cache |->
                           IF k \in active
                           THEN startFetch(marked[k], loads + number[k])
                           ELSE marked[k]]
        /\ loads' = loads + Cardinality(active)

\* an entry of the log of what the handlers did
Effect(kind, detail) == [kind |-> kind, detail |-> detail]

---------------------------------------------------------------------------
(* useLoginMutation *)

Emails == {"a@kakao.com"}

Names == {"a"}

AuthTokens == {"token1", "token2"}

\* api.authApi.login's responses
LoginResponses == [email : Emails, name : Names, authToken : AuthTokens]

\* what mutationFn makes of the response
loginResult(data) ==
    [authToken |-> data.authToken,
     user |-> [email |-> data.email, name |-> data.name]]

\* JSON.stringify of the result: the members in the order they were written
stringify(result) ==
    <<"{", "authToken", ":", result.authToken, ",", "user", ":",
      "{", "email", ":", result.user.email, ",",
           "name", ":", result.user.name, "}", "}">>

LoginMutate ==
    /\ login = "idle"
    /\ login' = "pending"
    /\ UNCHANGED <<revision, cache, loads, toggle, order, session, errorStore,
                   location, effects, infinite, registry>>

\* the login call resolves: onSuccess stores the session and invalidates
\* every query
LoginSuccess ==
    /\ login = "pending"
    /\ \E data \in LoginResponses :
          session' = Some(stringify(loginResult(data)))
    /\ Invalidate(None)
    /\ effects' = effects \o <<Effect("invalidate", None)>>
    /\ login' = "success"
    /\ UNCHANGED <<revision, toggle, order, errorStore, location, infinite,
                   registry>>

\* the login call rejects: there is no onError
LoginError ==
    /\ login = "pending"
    /\ login' = "error"
    /\ UNCHANGED <<revision, cache, loads, toggle, order, session, errorStore,
                   location, effects, infinite, registry>>

---------------------------------------------------------------------------
(* useCreateOrderMutation *)

Receivers == [quantity : 0..MaxQuantity]

\* the receiver lists of the order forms: up to MaxReceivers receivers
ReceiverLists == UNION {[1..n -> Receivers] : n \in 0..MaxReceivers}

GiftOrderForms ==
    [productId : ProductIds, receivers : ReceiverLists,
     ordererName : {"orderer"}, message : {"message"}]

\* variables.receivers.reduce((sum, r) => sum + r.quantity, 0)
RECURSIVE reduceQuantity(_, _, _)
reduceQuantity(receivers, i, sum) ==
    IF i > Len(receivers)
    THEN sum
    ELSE reduceQuantity(receivers, i + 1, sum + receivers[i].quantity)

\* totalQuantity that counts the receivers, not their quantities
totalReceivers(receivers) == Len(receivers)

totalQuantity(receivers) == reduceQuantity(receivers, 1, 0)

\* the text of the confirmation (the labels stand for the Korean ones)
orderAlert(variables) ==
    <<"order completed", "product: ", variables.productId,
      "quantity: ", ToString(totalQuantity(variables.receivers)),
      "orderer: ", variables.ordererName,
      "message: ", variables.message>>

\* encodeURIComponent of a path given as its characters' tokens: a slash
\* becomes %2F, the segments are kept
RECURSIVE encodeURIComponent(_)
encodeURIComponent(path) ==
    IF path = <<>>
    THEN <<>>
    ELSE <<IF Head(path) = "/" THEN "%2F" ELSE Head(path)>>
         \o encodeURIComponent(Tail(path))

HomePath == <<"/">>

OrderPath == <<"/", "order", "/", "1">>

\* the errors api.ordersApi.createOrder rejects with
OrderErrors == [status : {400, 401, 500}, message : {"", "out of stock"}]

\* the paths the user may be on
Paths == {HomePath, OrderPath}

\* the order mutation before mutate(): no variables, no error. pathAtMutate
\* notes the path that was active when mutate() was called.
IdleOrder ==
    [pc |-> "idle", variables |-> None, error |-> None, pathAtMutate |-> None]

OrderMutate(orderData) ==
    /\ order.pc = "idle"
    /\ order' = [order EXCEPT !.pc = "pending",
                               !.variables = Some(orderData),
                               !.pathAtMutate = Some(location)]
    /\ UNCHANGED <<revision, cache, loads, toggle, login, session, errorStore,
                   location, effects, infinite, registry>>

\* createOrder resolves: onSuccess invalidates the products prefix, shows
\* the confirmation and navigates home
OrderSuccess ==
    /\ order.pc = "pending"
    /\ Invalidate(productsKey)
    /\ effects' = effects
          \o <<Effect("invalidate", productsKey),
               Effect("alert", orderAlert(order.variables[1])),
               Effect("navigate", HomePath)>>
    /\ location' = HomePath
    /\ order' = [order EXCEPT !.pc = "success"]
    /\ UNCHANGED <<revision, toggle, login, session, errorStore, infinite, registry>>

\* the text of the toast for a status that is neither 400 nor 401, with the
\* fallback in every case
orderErrorFallbackOnly(error) == "order failed"

\* error.message || fallback: the text of the toast for a status that is
\* neither 400 nor 401
orderErrorMessage(error) ==
    IF error.message # "" THEN error.message ELSE "order failed"

\* createOrder rejects: onError by the error's status
OrderError(error) ==
    /\ order.pc = "pending"
    /\ order' = [order EXCEPT !.pc = "error", !.error = Some(error)]
    /\ IF error.status = 400
       THEN /\ effects' = effects \o <<Effect("toast", <<"no receivers">>)>>
            /\ UNCHANGED <<session, errorStore, location>>
       ELSE IF error.status = 401
       THEN /\ errorStore' = Some("login required")
            /\ session' = None
            /\ effects' = effects
                  \o <<Effect("navigate",
                              <<"/login?redirect=">>
                              \o encodeURIComponent(location))>>
            /\ location' = <<"/login?redirect=">>
                           \o encodeURIComponent(location)
       ELSE /\ effects' = effects
                  \o <<Effect("toast", <<orderErrorMessage(error)>>)>>
            /\ UNCHANGED <<session, errorStore, location>>
    /\ UNCHANGED <<revision, cache, loads, toggle, login, infinite, registry>>

\* the user goes to another page (a link, the back button): the mutation,
\* if one is out, stays out
Navigate(path) ==
    /\ location # path
    /\ location' = path
    /\ UNCHANGED <<revision, cache, loads, toggle, login, order, session,
                   errorStore, effects, infinite, registry>>

---------------------------------------------------------------------------
(* useThemeProductsInfiniteQuery *)

\* the limit argument of the hook: left out, or a positive page size
LimitArgs == {None} \cup {Some(n) : n \in 1..MaxLimit}

\* limit: number = 20
limitOf(limitArg) == IF limitArg = None THEN 20 ELSE limitArg[1]

\* the pages getThemeProductsWithPagination resolves to
ThemeProductsResponses == [list : {<<>>, <<"product">>}, hasMoreList : BOOLEAN]

initialPageParam == 0

\* getNextPageParam with the length of the last page in place of limit
getNextPageParamByPageLength(lastPage, allPages, limit) ==
    IF lastPage.hasMoreList
    THEN Some(Len(allPages) * Len(lastPage.list))
    ELSE None

\* getNextPageParam that does not look at hasMoreList
getNextPageParamAlways(lastPage, allPages, limit) ==
    Some(Len(allPages) * limit)

\* getNextPageParam(lastPage, allPages), undefined being None
getNextPageParam(lastPage, allPages, limit) ==
    IF lastPage.hasMoreList THEN Some(Len(allPages) * limit) ELSE None

\* the paginated query as the hook builds it: no data, nothing in flight.
\* requests is the list of the cursors getThemeProductsWithPagination was
\* called with.
IdleInfinite(limitArg) ==
    [limitArg |-> limitArg, pages |-> <<>>, pageParams |-> <<>>,
     fetch |-> None, requests |-> <<>>]

\* the query with a page request sent: queryFn({pageParam}) calls the
\* loader with {cursor: pageParam, limit}. The fetch holds the pages it has
\* so far and the number of pages it still has to get.
requestPage(inf, pages, pageParams, pageParam, remaining) ==
    [inf EXCEPT
        !.fetch = Some([pages |-> pages, pageParams |-> pageParams,
                        pageParam |-> pageParam, remaining |-> remaining]),
        !.requests = Append(@, pageParam)]

\* hasNextPage as the engine reports it
hasNextPage(inf) ==
    /\ inf.pages # <<>>
    /\ getNextPageParam(inf.pages[Len(inf.pages)], inf.pages,
                        limitOf(inf.limitArg)) # None

\* the component mounts with no data: the first page is fetched
InfiniteMount ==
    /\ infinite.fetch = None
    /\ infinite.pages = <<>>
    /\ Len(infinite.requests) < MaxRequests
    /\ infinite' = requestPage(infinite, <<>>, <<>>, initialPageParam, 1)
    /\ UNCHANGED <<revision, cache, loads, toggle, login, order, session,
                   errorStore, location, effects, registry>>

\* fetchNextPage(): the next page is fetched when getNextPageParam gives a
\* cursor, and nothing is done when it gives undefined
fetchNextPage ==
    /\ infinite.fetch = None
    /\ infinite.pages # <<>>
    /\ Len(infinite.pages) < MaxPages
    /\ Len(infinite.requests) < MaxRequests
    /\ LET param == getNextPageParam(infinite.pages[Len(infinite.pages)],
                                     infinite.pages,
                                     limitOf(infinite.limitArg))
       IN  infinite' = IF param = None
                       THEN infinite
                       ELSE requestPage(infinite, infinite.pages,
                                        infinite.pageParams, param[1], 1)
    /\ UNCHANGED <<revision, cache, loads, toggle, login, order, session,
                   errorStore, location, effects, registry>>

\* a refetch (the query was invalidated, or the component mounts again on
\* stale data): the pages held are fetched again from the first, one after
\* the other; the data stays until the last of them has resolved
InfiniteRefetch ==
    /\ infinite.fetch = None
    /\ infinite.pages # <<>>
    /\ Len(infinite.requests) + Len(infinite.pages) <= MaxRequests
    /\ infinite' = requestPage(infinite, <<>>, <<>>, infinite.pageParams[1],
                               Len(infinite.pages))
    /\ UNCHANGED <<revision, cache, loads, toggle, login, order, session,
                   errorStore, location, effects, registry>>

\* the page request in flight resolves: the page is added to the fetch's
\* pages; a refetch with pages left goes on to the next cursor, if
\* getNextPageParam gives one; otherwise the fetch's pages become the data
InfinitePageResolve(page) ==
    /\ infinite.fetch # None
    /\ LET fetch == infinite.fetch[1]
           pages == Append(fetch.pages, page)
           pageParams == Append(fetch.pageParams, fetch.pageParam)
           param == getNextPageParam(page, pages, limitOf(infinite.limitArg))
       IN  infinite' =
              IF fetch.remaining > 1 /\ param # None
              THEN requestPage(infinite, pages, pageParams, param[1],
                               fetch.remaining - 1)
              ELSE [infinite EXCEPT !.pages = pages,
                                    !.pageParams = pageParams,
                                    !.fetch = None]
    /\ UNCHANGED <<revision, cache, loads, toggle, login, order, session,
                   errorStore, location, effects, registry>>

\* the page request in flight rejects: the fetch ends, the data stays
InfinitePageReject ==
    /\ infinite.fetch # None
    /\ infinite' = [infinite EXCEPT !.fetch = None]
    /\ UNCHANGED <<revision, cache, loads, toggle, login, order, session,
                   errorStore, location, effects, registry>>

---------------------------------------------------------------------------
(* The key registry in use *)

\* a hook asks the registry for the key of a family
KeyOf(call) ==
    /\ Cardinality(registry) < MaxKeys
    /\ registry' = registry
          \cup {[family |-> call.family, params |-> call.params,
                 key |-> keyOf(call.family, call.params)]}
    /\ UNCHANGED <<revision, cache, loads, toggle, login, order, session,
                   errorStore, location, effects, infinite>>

---------------------------------------------------------------------------
(* The state machine *)

Init ==
    /\ revision \in Revisions
    /\ cache = <<>>
    /\ loads = 0
    /\ toggle = [m \in ToggleIds |-> IdleToggle]
    /\ login = "idle"
    /\ order = IdleOrder
    /\ session = None
    /\ errorStore = None
    /\ location = OrderPath
    /\ effects = <<>>
    /\ infinite = IdleInfinite(None)
    /\ registry = {}

\* the reads, with the wish toggles as the code has them (the stub settles
\* every toggle with success)
NextToggle ==
    \/ \E key \in ProductReadKeys(revision) : FetchStart(key)
    \/ \E key \in DOMAIN cache : FetchSettle(key)
    \/ \E m \in ToggleIds, productId \in ProductIds, isWished \in BOOLEAN :
          ToggleMutate(m, productId, isWished)
    \/ \E m \in ToggleIds : ToggleCancel(m)
    \/ \E m \in ToggleIds : ToggleRewrite(m)
    \/ \E m \in ToggleIds : ToggleDispatch(m)
    \/ \E m \in ToggleIds : ToggleSuccess(m)

SpecToggle == Init /\ [][NextToggle]_vars

\* the toggles run on: a cancelQueries that onMutate awaits resolves, the
\* mutation goes on to mutationFn once onMutate has returned, and the stub's
\* promise resolves, so none of these steps waits for ever
ToggleFairness ==
    \A m \in ToggleIds :
        /\ WF_vars(ToggleCancel(m))
        /\ WF_vars(ToggleRewrite(m))
        /\ WF_vars(ToggleDispatch(m))
        /\ WF_vars(ToggleSuccess(m))

SpecToggleFair == SpecToggle /\ ToggleFairness

\* the same with a remote wish call that may fail in place of the stub
NextToggleRemote ==
    \/ NextToggle
    \/ \E m \in ToggleIds : ToggleError(m)

SpecToggleRemote == Init /\ [][NextToggleRemote]_vars

\* the same on a page that also reads the themes, a ranking list and the
\* wish entry of another product
NextTogglePage ==
    \/ NextToggleRemote
    \/ \E key \in ReadKeys(revision) \ ProductReadKeys(revision) :
          FetchStart(key)

SpecTogglePage == Init /\ [][NextTogglePage]_vars

\* the reads, with the login mutation
NextLogin ==
    \/ \E key \in ReadKeys(revision) : FetchStart(key)
    \/ \E key \in DOMAIN cache : FetchSettle(key)
    \/ LoginMutate
    \/ LoginSuccess
    \/ LoginError

SpecLogin == Init /\ [][NextLogin]_vars

\* the reads, with the order mutation
NextOrder ==
    \/ \E key \in ReadKeys(revision) : FetchStart(key)
    \/ \E key \in DOMAIN cache : FetchSettle(key)
    \/ \E orderData \in GiftOrderForms : OrderMutate(orderData)
    \/ OrderSuccess
    \/ \E error \in OrderErrors : OrderError(error)

SpecOrder == Init /\ [][NextOrder]_vars

\* the order page of a user who is signed in: the session store holds the
\* text a login left there
InitSignedIn ==
    /\ revision \in Revisions
    /\ cache = <<>>
    /\ loads = 0
    /\ toggle = [m \in ToggleIds |-> IdleToggle]
    /\ login = "success"
    /\ order = IdleOrder
    /\ \E data \in LoginResponses :
          session = Some(stringify(loginResult(data)))
    /\ errorStore = None
    /\ location = OrderPath
    /\ effects = <<>>
    /\ infinite = IdleInfinite(None)
    /\ registry = {}

\* the reads and the order mutation, with the user free to leave the page
NextOrderPage ==
    \/ \E key \in ProductReadKeys(revision) : FetchStart(key)
    \/ \E key \in DOMAIN cache : FetchSettle(key)
    \/ \E orderData \in GiftOrderForms : OrderMutate(orderData)
    \/ OrderSuccess
    \/ \E error \in OrderErrors : OrderError(error)
    \/ \E path \in Paths : Navigate(path)

SpecOrderPage == InitSignedIn /\ [][NextOrderPage]_vars

\* a theme page: the hook is called with any of the limit arguments
InitInfinite ==
    /\ revision \in Revisions
    /\ cache = <<>>
    /\ loads = 0
    /\ toggle = [m \in ToggleIds |-> IdleToggle]
    /\ login = "idle"
    /\ order = IdleOrder
    /\ session = None
    /\ errorStore = None
    /\ location = HomePath
    /\ effects = <<>>
    /\ \E limitArg \in LimitArgs : infinite = IdleInfinite(limitArg)
    /\ registry = {}

\* the paginated query
NextInfinite ==
    \/ InfiniteMount
    \/ fetchNextPage
    \/ InfiniteRefetch
    \/ \E page \in ThemeProductsResponses : InfinitePageResolve(page)
    \/ InfinitePageReject

SpecInfinite == InitInfinite /\ [][NextInfinite]_vars

\* the registry asked for keys, any family with any parameters
NextKeys == \E call \in KeyCalls : KeyOf(call)

SpecKeys == Init /\ [][NextKeys]_vars

---------------------------------------------------------------------------
(* Steps and values the properties speak of *)

\* the data of a product's wish entry in a cache
WishData(c, productId) == getQueryData(c, productWishKey(productId))

\* the data of a product's aggregate entry in a cache
PageData(c, productId) == getQueryData(c, productPageKey(productId))

\* onMutate's synchronous block (snapshot and rewrite) runs in this step
RewriteStep(m) == toggle[m].pc = "onMutate" /\ toggle'[m].pc = "mutated"

\* the toggle settles in this step
SuccessStep(m) == toggle[m].pc = "pending" /\ toggle'[m].pc = "success"

ErrorStep(m) == toggle[m].pc = "pending" /\ toggle'[m].pc = "error"

\* the wish value the flip/count rule gives from {wishCount: c, isWished: w}
Flipped(wish) ==
    [wishCount |-> IF wish.isWished
                   THEN wish.wishCount - 1
                   ELSE wish.wishCount + 1,
     isWished |-> ~wish.isWished]

---------------------------------------------------------------------------
(* Properties *)

\* C1: when a toggle's input isWished equals the cached entry's isWished,
\* the rewrite step leaves the wish entry at the flipped value (count - 1 and
\* not wished when it was wished, count + 1 and wished when it was not), and
\* the step in which the remote call settles with success changes no query:
\* no write and no invalidation.
C1_OptimisticRewriteThenSuccess ==
    [][\A m \in ToggleIds :
          /\ ( /\ RewriteStep(m)
               /\ WishData(cache, Variables(m).productId) # None
               /\ WishData(cache, Variables(m).productId)[1].isWished
                     = Variables(m).isWished )
             => WishData(cache', Variables(m).productId)
                   = Some(Flipped(WishData(cache, Variables(m).productId)[1]))
          /\ SuccessStep(m) => cache' = cache]_vars

\* a toggle of a cached entry, with the entry's isWished as input, has
\* settled with success and the entry reads the flipped value
C1_Witness ==
    \E m \in ToggleIds :
        /\ toggle[m].pc = "success"
        /\ toggle[m].context[1].previousWish # None
        /\ toggle[m].context[1].previousWish[1].isWished
              = Variables(m).isWished
        /\ WishData(cache, Variables(m).productId)
              = Some(Flipped(toggle[m].context[1].previousWish[1]))

\* C2: the snapshot a toggle keeps is the wish entry as it was right before
\* the rewrite, and when the remote call fails and an entry was cached
\* before the toggle, the wish entry after the failure step is that
\* snapshot, whatever the toggle's input.
C2_RollbackRestoresSnapshot ==
    [][\A m \in ToggleIds :
          /\ RewriteStep(m)
             => toggle'[m].context[1].previousWish
                   = WishData(cache, Variables(m).productId)
          /\ (ErrorStep(m) /\ toggle[m].context[1].previousWish # None)
             => WishData(cache', Variables(m).productId)
                   = toggle[m].context[1].previousWish]_vars

\* a toggle of a cached entry has failed, and the entry is the snapshot and
\* not the optimistic value
C2_Witness ==
    \E m \in ToggleIds :
        /\ toggle[m].pc = "error"
        /\ toggle[m].context[1].previousWish # None
        /\ WishData(cache, Variables(m).productId)
              = toggle[m].context[1].previousWish

\* C3: with no wish entry cached, the rewrite step of a toggle with input
\* isWished = false leaves the wish entry at {wishCount: 1, isWished: true}.
C3_NoPriorEntryYieldsFlippedSeed ==
    [][\A m \in ToggleIds :
          ( /\ RewriteStep(m)
            /\ WishData(cache, Variables(m).productId) = None
            /\ ~Variables(m).isWished )
          => WishData(cache', Variables(m).productId)
                = Some([wishCount |-> 1, isWished |-> TRUE])]_vars

\* C4: no wish entry has a negative wishCount (the loaders return none).
C4_WishCountNonNegative ==
    \A productId \in ProductIds :
        WishData(cache, productId) # None
        => WishData(cache, productId)[1].wishCount >= 0

\* the wish entry and the aggregate of a product agree in a cache when both
\* hold data
Consistent(c, productId) ==
    (WishData(c, productId) # None /\ PageData(c, productId) # None)
    => PageData(c, productId)[1].wishData = WishData(c, productId)[1]

\* C5: in the revision that keeps the aggregate, a rewrite step or a
\* rollback step that starts with the wish entry and the aggregate in
\* agreement ends with them in agreement, whichever of the two was cached
\* before the toggle.
C5_AggregateAgreesWithWishEntry ==
    [][\A m \in ToggleIds :
          ( /\ RewriteStep(m) \/ ErrorStep(m)
            /\ revision = "part_000"
            /\ Consistent(cache, Variables(m).productId) )
          => Consistent(cache', Variables(m).productId)]_vars

\* a read of the wish key whose loader call was in flight when toggle m
\* rewrote the entry settles in this step, m not yet settled
StaleReadSettles(m) ==
    LET key == productWishKey(Variables(m).productId)
    IN  /\ toggle[m].pc \in {"mutated", "pending"}
        /\ toggle' = toggle
        /\ toggle[m].fetchAtRewrite # 0
        /\ key \in DOMAIN cache
        /\ cache[key].fetchId = toggle[m].fetchAtRewrite
        /\ cache'[key].fetchId = 0

\* C6: a read of the wish key that was in flight before a toggle's rewrite
\* (in flight when the toggle began, or started during its awaited
\* cancellations) never stores its result over the optimistic value: when it
\* settles before the toggle does, the wish entry keeps its data.
C6_StaleReadNeverOverwrites ==
    [][\A m \in ToggleIds :
          StaleReadSettles(m)
          => WishData(cache', Variables(m).productId)
                = WishData(cache, Variables(m).productId)]_vars

\* C7: the remote call of a toggle is dispatched only from the state in
\* which onMutate has returned: every cancelQueries was issued, the context
\* holds the snapshot, and the rewrite step before it left a wish entry that
\* is present and differs from the entry it found; a toggle whose call is
\* out or settled always has its context.
C7_RewriteBeforeDispatch ==
    [][\A m \in ToggleIds :
          /\ (toggle'[m].pc = "pending" /\ toggle[m].pc # "pending")
             => /\ toggle[m].pc = "mutated"
                /\ toggle[m].context # None
                /\ toggle[m].step
                      > Len(CancelFilters(revision, Variables(m).productId))
          /\ toggle'[m].pc \in {"pending", "success", "error"}
             => toggle'[m].context # None
          /\ RewriteStep(m)
             => /\ WishData(cache', Variables(m).productId) # None
                /\ WishData(cache', Variables(m).productId)
                      # WishData(cache, Variables(m).productId)
                /\ toggle'[m].context
                      = Some(Snapshot(revision, cache,
                                      Variables(m).productId))]_vars

\* the remote call of a toggle is out, and the wish entry holds the value
\* the rewrite made of the snapshot
C7_Witness ==
    \E m \in ToggleIds :
        /\ toggle[m].pc = "pending"
        /\ toggle[m].context[1].previousWish # None
        /\ WishData(cache, Variables(m).productId)
              = toggleWish(toggle[m].context[1].previousWish,
                           Variables(m).isWished)

\* what a reader of the session store gets back from the stored text
\* (JSON.parse): the members by their names
parseSession(text) ==
    [authToken |-> text[4],
     user |-> [email |-> text[11], name |-> text[15]]]

\* the login settles with success in this step
LoginSuccessStep == login = "pending" /\ login' = "success"

\* C8: in the step in which a login succeeds, the session store comes to
\* hold a text that reads back as {authToken, user: {email, name}} of one of
\* the responses, and every query that had data before the step is stale
\* after it, so that a read of it goes to the loader.
C8_LoginStoresSessionAndInvalidatesAll ==
    [][LoginSuccessStep
       => /\ session' # None
          /\ \E data \in LoginResponses :
                parseSession(session'[1])
                   = [authToken |-> data.authToken,
                      user |-> [email |-> data.email, name |-> data.name]]
          /\ \A key \in DOMAIN cache :
                cache[key].data # None => isStale(cache', key)]_vars

\* a login has succeeded with entries of both key families resolved before
\* it, and they are stale
C8_Witness ==
    /\ login = "success"
    /\ session # None
    /\ themesKey \in DOMAIN cache
    /\ cache[themesKey].data # None
    /\ cache[themesKey].isInvalidated
    /\ \E key \in DOMAIN cache :
          /\ key[1] = "products"
          /\ cache[key].data # None
          /\ cache[key].isInvalidated

\* the order settles with success in this step
OrderSuccessStep == order.pc = "pending" /\ order'.pc = "success"

\* C9: in the step in which an order succeeds, the ranking list and every
\* product read with data (product, detail, reviews, wish, and the
\* product-page aggregate where the revision keeps one) are stale after it.
C9_OrderInvalidatesProductReads ==
    [][OrderSuccessStep
       => \A key \in DOMAIN cache :
             ( /\ key \in {RankingKey} \cup ProductReadKeys(revision)
               /\ cache[key].data # None )
             => isStale(cache', key)]_vars

\* the sum of the quantities of a receiver list, from its last receiver
RECURSIVE SumOfQuantities(_)
SumOfQuantities(receivers) ==
    IF receivers = <<>>
    THEN 0
    ELSE receivers[Len(receivers)].quantity
         + SumOfQuantities(SubSeq(receivers, 1, Len(receivers) - 1))

\* the navigations to the home route in the log
HomeNavigations ==
    {i \in 1..Len(effects) :
        effects[i].kind = "navigate" /\ effects[i].detail = HomePath}

\* C10: the step in which an order succeeds appends to the log, in this
\* order, the invalidation of the products prefix, the confirmation whose
\* quantity is the sum of the receivers' quantities (0 for no receivers) and
\* one navigation to the home route; no other step navigates home, so the
\* log holds one home navigation after a successful order and none before
\* the call has settled.
C10_OrderSummaryThenOneNavigation ==
    [][/\ OrderSuccessStep
          => /\ Len(effects') = Len(effects) + 3
             /\ SubSeq(effects', 1, Len(effects)) = effects
             /\ effects'[Len(effects) + 1].kind = "invalidate"
             /\ effects'[Len(effects) + 1].detail = productsKey
             /\ effects'[Len(effects) + 2].kind = "alert"
             /\ effects'[Len(effects) + 2].detail[5]
                   = ToString(SumOfQuantities(order.variables[1].receivers))
             /\ effects'[Len(effects) + 3].kind = "navigate"
             /\ effects'[Len(effects) + 3].detail = HomePath
       /\ Cardinality(HomeNavigations')
             = IF order'.pc = "success" THEN 1 ELSE 0]_vars

\* an order with two receivers of quantities 2 and 1 has succeeded: the
\* confirmation says 3 and the log ends with the one home navigation
C10_Witness ==
    /\ order.pc = "success"
    /\ order.variables[1].receivers = <<[quantity |-> 2], [quantity |-> 1]>>
    /\ \E i \in 1..Len(effects) :
          effects[i].kind = "alert" /\ effects[i].detail[5] = "3"
    /\ effects[Len(effects)].kind = "navigate"
    /\ Cardinality(HomeNavigations) = 1

\* the order fails in this step with an error of the given statuses
OrderErrorStep(statuses) ==
    /\ order.pc = "pending"
    /\ order'.pc = "error"
    /\ order'.error[1].status \in statuses

\* the redirect to the login route that carries a path as its return target
LoginRedirect(path) == <<"/login?redirect=">> \o encodeURIComponent(path)

\* C11: the step in which an order fails with status 401 removes the session
\* store entry, sets the application error state, appends to the log one
\* navigation and nothing else, to the login route with the path that was
\* active when the mutation was invoked as its return target, whatever the
\* active path is by then, and changes no query.
C11_Order401RedirectsWithPathAtMutate ==
    [][OrderErrorStep({401})
       => /\ session' = None
          /\ errorStore' # None
          /\ effects' = effects
                \o <<Effect("navigate", LoginRedirect(order.pathAtMutate[1]))>>
          /\ cache' = cache]_vars

\* C12: the step in which an order fails with a status other than 401
\* appends to the log one toast and nothing else (the no-receivers text for
\* 400; the error's message, or the fallback when it is empty, otherwise),
\* and leaves the location, every query, the session store and the
\* application error state as they were.
C12_OrderFailureNotifiesOnly ==
    [][OrderErrorStep({400, 500})
       => /\ effects' = effects
                \o <<Effect("toast",
                       <<IF order'.error[1].status = 400
                         THEN "no receivers"
                         ELSE IF order'.error[1].message = ""
                         THEN "order failed"
                         ELSE order'.error[1].message>>)>>
          /\ location' = location
          /\ cache' = cache
          /\ session' = session
          /\ errorStore' = errorStore]_vars

\* an order of a signed-in user has failed with a status that is neither 400
\* nor 401 and a message of its own, with a product read resolved before it:
\* the log holds the one toast with that message, the read is not stale, the
\* session is kept
C12_Witness ==
    /\ order.pc = "error"
    /\ order.error[1].status = 500
    /\ order.error[1].message = "out of stock"
    /\ effects = <<Effect("toast", <<"out of stock">>)>>
    /\ session # None
    /\ errorStore = None
    /\ \E key \in DOMAIN cache : cache[key].data # None /\ ~isStale(cache, key)

\* the page size of the paginated query: 20 when the caller gave none
PageSize == IF infinite.limitArg = None THEN 20 ELSE infinite.limitArg[1]

\* C13: the page size is positive, and 20 when the caller gave none; the
\* n-th page held was requested with cursor (n-1) * limit; a request in
\* flight with k pages fetched before it carries cursor k * limit (0 for the
\* first), whatever the pages contain, and is the last cursor the loader was
\* called with.
C13_CursorIsPageCountTimesLimit ==
    /\ PageSize > 0
    /\ Len(infinite.pageParams) = Len(infinite.pages)
    /\ \A n \in 1..Len(infinite.pageParams) :
          infinite.pageParams[n] = (n - 1) * PageSize
    /\ infinite.fetch # None
       => /\ infinite.fetch[1].pageParam
                = Len(infinite.fetch[1].pages) * PageSize
          /\ infinite.requests # <<>>
          /\ infinite.requests[Len(infinite.requests)]
                = infinite.fetch[1].pageParam
          /\ \A n \in 1..Len(infinite.fetch[1].pageParams) :
                infinite.fetch[1].pageParams[n] = (n - 1) * PageSize

\* with no limit given, three pages are held and the fourth request is out
\* with cursor 60, after the cursors 0, 20 and 40
C13_Witness ==
    /\ infinite.limitArg = None
    /\ Len(infinite.pages) = 3
    /\ infinite.fetch # None
    /\ infinite.fetch[1].pageParam = 60
    /\ infinite.requests = <<0, 20, 40, 60>>

\* the last page of a list of pages says there is more
MoreAfter(pages) == pages # <<>> /\ pages[Len(pages)].hasMoreList

\* a page request is sent in this step
RequestStep == infinite'.requests # infinite.requests

\* C14: the engine reports a next page exactly when the last page held has
\* hasMoreList = true; a request for the page after the pages a fetch has in
\* hand is sent only when the last of them has hasMoreList = true; and while
\* the last page held has hasMoreList = false, the only request that can be
\* sent is the one that starts over at the first page (a refetch of the
\* pages held), never one for a further page.
C14_NoRequestPastLastPage ==
    [][/\ hasNextPage(infinite) <=> MoreAfter(infinite.pages)
       /\ RequestStep
          => /\ infinite'.fetch # None
             /\ \/ infinite'.fetch[1].pages = <<>>
                \/ MoreAfter(infinite'.fetch[1].pages)
       /\ ( /\ RequestStep
            /\ infinite.fetch = None
            /\ infinite.pages # <<>>
            /\ ~MoreAfter(infinite.pages) )
          => /\ infinite'.fetch[1].pages = <<>>
             /\ infinite'.fetch[1].pageParam = 0]_vars

\* three pages are held, the third with hasMoreList = false after two with
\* true: three requests were sent, none is in flight and no next page is
\* reported
C14_Witness ==
    /\ Len(infinite.pages) = 3
    /\ infinite.pages[1].hasMoreList
    /\ infinite.pages[2].hasMoreList
    /\ ~infinite.pages[3].hasMoreList
    /\ infinite.fetch = None
    /\ Len(infinite.requests) = 3
    /\ ~hasNextPage(infinite)

\* C15: of the keys the registry gave, two for the same family and
\* parameters are equal, and two for different families or different
\* parameters differ (in length or in a segment); every key given is the
\* family's key for the parameters.
C15_KeysDeterministicAndInjective ==
    \A a, b \in registry :
        /\ a.key = keyOf(a.family, a.params)
        /\ (a.family = b.family /\ a.params = b.params) => a.key = b.key
        /\ a.key = b.key => (a.family = b.family /\ a.params = b.params)

\* the registry gave the key of the product whose id is 'ranking' and a key
\* of the ranking lists, and the key of a theme's products and its
\* paginated key: two keys each time
C15_Witness ==
    \/ /\ \E a \in registry :
              a.family = "product" /\ a.params = <<"ranking">>
       /\ \E b \in registry : b.family = "rankingProducts"
       /\ Cardinality({a.key : a \in registry}) = 2
    \/ /\ \E a \in registry :
              a.family = "themeProducts" /\ a.params = <<"1">>
       /\ \E b \in registry :
              b.family = "themeProductsInfinite" /\ b.params = <<"1">>
       /\ Cardinality({a.key : a \in registry}) = 2

\* C16: no query holds an absent product as the result of a read: the entry
\* of a product key never has the null product as its data, and neither has
\* the product of a product-page aggregate; a loader that resolved to an
\* absent product made the read fail.
C16_NoResolvedAbsentProduct ==
    \A productId \in ProductIds :
        /\ getQueryData(cache, productKey(productId)) # Some(Null)
        /\ PageData(cache, productId) # None
           => PageData(cache, productId)[1].product # Null

\* C17: every toggle that was started settles with success in the end; no
\* toggle is ever in the failed state, the state only onError's step leaves
\* it in; and from its rewrite on, no step of the toggle itself (dispatch,
\* settle) changes a query, so the optimistic value is not taken back by the
\* toggle.
C17_ToggleSettlesWithSuccess ==
    /\ \A m \in ToggleIds :
          (toggle[m].pc # "idle") ~> (toggle[m].pc = "success")
    /\ [](\A m \in ToggleIds : toggle[m].pc # "error")
    /\ [][\A m \in ToggleIds :
             ( /\ toggle[m].pc \in {"mutated", "pending"}
               /\ toggle'[m] # toggle[m] )
             => cache' = cache]_vars

\* every toggle has settled with success, and the wish entry holds what the
\* last rewrite made of it
C17_Witness ==
    /\ \A m \in ToggleIds : toggle[m].pc = "success"
    /\ \E m \in ToggleIds :
          /\ toggle[m].context[1].previousWish # None
          /\ WishData(cache, Variables(m).productId)
                = toggleWish(toggle[m].context[1].previousWish,
                             Variables(m).isWished)

\* C18: when a toggle found no wish entry (and, in the revision that keeps
\* the aggregate, no aggregate) at its rewrite and its remote call fails,
\* the product has no wish entry after the failure step: the seeded entry
\* is gone and the aggregate is still absent.
C18_RollbackRemovesSeededEntry ==
    [][\A m \in ToggleIds :
          ( /\ ErrorStep(m)
            /\ toggle[m].context[1].previousWish = None
            /\ revision = "part_000"
               => toggle[m].context[1].previousProductPage = None )
          => /\ WishData(cache', Variables(m).productId) = None
             /\ revision = "part_000"
                => PageData(cache', Variables(m).productId) = None]_vars

\* toggle n made its rewrite on the optimistic value of toggle m, each with
\* the cached isWished as its input, and the wish entry holds what n wrote;
\* n has settled with success, m's remote call is still out
Overlapping(m, n) ==
    /\ toggle[m].pc = "pending"
    /\ toggle[n].pc = "success"
    /\ Variables(m).productId = Variables(n).productId
    /\ toggle[m].context[1].previousWish # None
    /\ toggle[n].context[1].previousWish # None
    /\ Variables(m).isWished = toggle[m].context[1].previousWish[1].isWished
    /\ Variables(n).isWished = toggle[n].context[1].previousWish[1].isWished
    /\ toggle[n].context[1].previousWish
          = Some(Flipped(toggle[m].context[1].previousWish[1]))
    /\ WishData(cache, Variables(n).productId)
          = Some(Flipped(toggle[n].context[1].previousWish[1]))

\* C19: of two overlapping toggles of one product, the second having
\* succeeded, the step that settles the first leaves the wish entry at the
\* pre-toggle entry (the first one's snapshot) with the flip/count rule
\* applied once for each toggle that succeeded: twice when the first
\* succeeds, once, for the second toggle, when the first fails.
C19_OverlappingTogglesCompose ==
    [][\A m, n \in ToggleIds :
          (m # n /\ Overlapping(m, n))
          => /\ SuccessStep(m)
                => WishData(cache', Variables(m).productId)
                      = Some(Flipped(Flipped(
                            toggle[m].context[1].previousWish[1])))
             /\ ErrorStep(m)
                => WishData(cache', Variables(m).productId)
                      = Some(Flipped(
                            toggle[m].context[1].previousWish[1]))]_vars

\* toggle m follows toggle n on one product: n was given the isWished of the
\* entry it found, has settled with success, and m is given the opposite
Follows(m, n) ==
    /\ m # n
    /\ toggle[n].pc = "success"
    /\ toggle[m].variables # None
    /\ Variables(m).productId = Variables(n).productId
    /\ toggle[n].context[1].previousWish # None
    /\ Variables(n).isWished = toggle[n].context[1].previousWish[1].isWished
    /\ Variables(m).isWished = ~Variables(n).isWished

\* C20: when a toggle given the cached isWished w has settled with success
\* and a second toggle of the product, given not w, finds the entry the
\* first one wrote, the second one's rewrite leaves the wish entry equal to
\* the entry {wishCount: c, isWished: w} the first one found, and the step
\* in which the second settles with success leaves it so.
C20_ToggleRoundTrip ==
    [][\A m, n \in ToggleIds :
          Follows(m, n)
          => /\ ( /\ RewriteStep(m)
                  /\ WishData(cache, Variables(m).productId)
                        = toggleWish(toggle[n].context[1].previousWish,
                                     Variables(n).isWished) )
                => WishData(cache', Variables(m).productId)
                      = toggle[n].context[1].previousWish
             /\ ( /\ SuccessStep(m)
                  /\ toggle[m].context[1].previousWish
                        = toggleWish(toggle[n].context[1].previousWish,
                                     Variables(n).isWished)
                  /\ WishData(cache, Variables(m).productId)
                        = toggle[n].context[1].previousWish )
                => WishData(cache', Variables(m).productId)
                      = toggle[n].context[1].previousWish]_vars

\* two toggles of a cached entry have settled with success, the second on
\* the entry the first one wrote and with the opposite input, and the wish
\* entry is the one the first toggle found
C20_Witness ==
    \E m, n \in ToggleIds :
        /\ Follows(m, n)
        /\ toggle[m].pc = "success"
        /\ toggle[m].context[1].previousWish
              = Some(Flipped(toggle[n].context[1].previousWish[1]))
        /\ WishData(cache, Variables(m).productId)
              = toggle[n].context[1].previousWish

\* toggle m takes a step: mutate(), a cancelQueries, the rewrite, the
\* dispatch or the settle on either outcome
ToggleStep(m) == toggle'[m] # toggle[m]

\* the entries a toggle of a product may write: its wish entry and its
\* product-page aggregate
ToggleWrites(productId) ==
    {productWishKey(productId), productPageKey(productId)}

====
